---- MODULE Spec2Model ----
(***************************************************************************)
(* A model of the CourtListener demo client.                               *)
(*                                                                         *)
(*   src/client.py  CourtListenerClient._get_with_retries  (the executor)  *)
(*                  CourtListenerClient.fetch_paginated    (the stream)    *)
(*   src/main.py    main and its persistence helpers                       *)
(*                                                                         *)
(* One behaviour of Spec is one run of main against one server.  The       *)
(* server is the environment: the outcome of every GET (a fault, or a      *)
(* status and a body) is drawn when the GET is made.  SpecRuns lets main   *)
(* be run again on the files the run before left, and SpecIO lets the      *)
(* writes of main fail.                                                    *)
(*                                                                         *)
(* Python values are encoded as follows.                                   *)
(*   str            a sequence of code points (so that slicing, strip and  *)
(*                  the lexicographic order are computed)                  *)
(*   text file      the since-file is the sequence of its bytes, written   *)
(*                  and read as utf-8                                      *)
(*   Optional[x]    None is << >>, a value x is << x >>                    *)
(*   dict (record)  a TLA+ record holding the keys that are present        *)
(***************************************************************************)
EXTENDS Integers, Sequences, FiniteSets, TLC

VARIABLES
    args,          \* argparse result: limit, date_min, fields, since_file, user
    since_file,    \* bytes of the since-file on disk (None: no such file)
    output_file,   \* content of data/<user>_opinions.jsonl (None: no such file)
    users_file,    \* content of data/users.json (None: no such file)
    pc,            \* position of main
    filters,       \* main: the filters dict handed to client.opinions
    collected,     \* main: list of (projected) records
    newest_date,   \* main: Optional[str], max date_filed seen
    i,             \* main: the enumerate counter of the last record consumed
    gen,           \* position of the fetch_paginated generator
    url,           \* fetch_paginated: Optional url of the page being fetched
    first_request, \* fetch_paginated: flag
    params,        \* fetch_paginated: Optional params dict
    data,          \* fetch_paginated: decoded body of the current page
    idx,           \* fetch_paginated: position of the next item of the page
    attempt,       \* _get_with_retries: attempt counter
    resp,          \* _get_with_retries: outcome of the latest GET
    error,         \* the exception in flight or caught ("" when none)
    call_log,      \* history: the attempts of the current executor call
    n_calls,       \* history: number of executor calls begun in this run
    fetched,       \* history: the pages the executor returned, in order
    yielded,       \* history: every record yielded by the stream, in order
    since_before,  \* history: content of the since-file when the run began
    output_before, \* history: content of the output file when the run began
    run            \* history: the number of this run of main (1, 2, ...)

vars == << args, since_file, output_file, users_file, pc, filters, collected,
           newest_date, i, gen, url, first_request, params, data, idx, attempt,
           resp, error, call_log, n_calls, fetched, yielded, since_before, output_before, run >>

---------------------------------------------------------------------------
(* Bounds of the model *)

\* Largest --limit tried below the default.
MaxLimit == 1
\* Most records the server puts on one page.
MaxPerPage == 2
\* Most runs of main made one after the other on the same files.
MaxRuns == 2
\* Most pages the server serves in one run (it stops handing out a next
\* reference after that many).
MaxPages == 3

---------------------------------------------------------------------------
(* Python values *)

None == << >>
Some(x) == << x >>

\* Python truthiness of an Optional[str]: None and "" are falsy.
Truthy(o) == o /= None /\ o[1] /= << >>

Min(a, b) == IF a < b THEN a ELSE b

\* s[:n]
Prefix(s, n) == SubSeq(s, 1, Min(n, Len(s)))

\* Python's str order: code point by code point, a proper prefix is smaller.
RECURSIVE StrLess(_, _)
StrLess(a, b) ==
    IF b = << >> THEN FALSE
    ELSE IF a = << >> THEN TRUE
    ELSE IF Head(a) < Head(b) THEN TRUE
    ELSE IF Head(a) > Head(b) THEN FALSE
    ELSE StrLess(Tail(a), Tail(b))

StrLeq(a, b) == a = b \/ StrLess(a, b)

\* The code points str.strip() removes, those for which str.isspace() holds:
\* tab, LF, VT, FF, CR, the separators FS, GS, RS, US, space, NEL, the
\* no-break space and the Unicode spaces and line separators.
Whitespace ==
    (9..13) \cup (28..32) \cup { 133, 160, 5760 } \cup (8192..8202)
        \cup { 8232, 8233, 8239, 8287, 12288 }

RECURSIVE LStrip(_)
LStrip(s) ==
    IF s /= << >> /\ Head(s) \in Whitespace THEN LStrip(Tail(s)) ELSE s

RECURSIVE RStrip(_)
RStrip(s) ==
    IF s /= << >> /\ s[Len(s)] \in Whitespace
    THEN RStrip(SubSeq(s, 1, Len(s) - 1)) ELSE s

\* str.strip()
Strip(s) == RStrip(LStrip(s))

\* The code points of lone surrogates, which utf-8 does not encode.
Surrogates == 55296..57343

\* str.encode("utf-8") does not raise.
CanEncode(text) == \A n \in 1..Len(text) : text[n] \notin Surrogates

\* The utf-8 bytes of one code point.
Utf8Char(c) ==
    IF c < 128 THEN << c >>
    ELSE IF c < 2048 THEN << 192 + (c \div 64), 128 + (c % 64) >>
    ELSE IF c < 65536
         THEN << 224 + (c \div 4096), 128 + ((c \div 64) % 64), 128 + (c % 64) >>
    ELSE << 240 + (c \div 262144), 128 + ((c \div 4096) % 64),
            128 + ((c \div 64) % 64), 128 + (c % 64) >>

\* str.encode("utf-8") of a text that can be encoded.
RECURSIVE Utf8Encode(_)
Utf8Encode(text) ==
    IF text = << >> THEN << >>
    ELSE Utf8Char(Head(text)) \o Utf8Encode(Tail(text))

\* A continuation byte of utf-8.
Continuation(b) == 128 <= b /\ b <= 191

\* The number of bytes of the character a non-empty byte sequence begins
\* with, 0 when it begins with no well-formed character (a stray or
\* missing continuation byte, an overlong form, a surrogate, a code point
\* past U+10FFFF).
Utf8Width(bs) ==
    IF bs[1] < 128 THEN 1
    ELSE IF /\ 194 <= bs[1] /\ bs[1] <= 223
            /\ Len(bs) >= 2 /\ Continuation(bs[2])
         THEN 2
    ELSE IF /\ 224 <= bs[1] /\ bs[1] <= 239
            /\ Len(bs) >= 3 /\ Continuation(bs[2]) /\ Continuation(bs[3])
            /\ bs[1] = 224 => bs[2] >= 160
            /\ bs[1] = 237 => bs[2] <= 159
         THEN 3
    ELSE IF /\ 240 <= bs[1] /\ bs[1] <= 244
            /\ Len(bs) >= 4 /\ Continuation(bs[2]) /\ Continuation(bs[3])
            /\ Continuation(bs[4])
            /\ bs[1] = 240 => bs[2] >= 144
            /\ bs[1] = 244 => bs[2] <= 143
         THEN 4
    ELSE 0

\* The code point of the character of w bytes that bs begins with.
Utf8Point(bs, w) ==
    IF w = 1 THEN bs[1]
    ELSE IF w = 2 THEN (bs[1] - 192) * 64 + (bs[2] - 128)
    ELSE IF w = 3
         THEN (bs[1] - 224) * 4096 + (bs[2] - 128) * 64 + (bs[3] - 128)
    ELSE (bs[1] - 240) * 262144 + (bs[2] - 128) * 4096
             + (bs[3] - 128) * 64 + (bs[4] - 128)

\* bytes.decode("utf-8"): << text >>, or << >> when it raises
\* UnicodeDecodeError.
RECURSIVE Utf8Decode(_)
Utf8Decode(bs) ==
    IF bs = << >> THEN << << >> >>
    ELSE IF Utf8Width(bs) = 0 THEN << >>
    ELSE LET w == Utf8Width(bs)
             rest == Utf8Decode(SubSeq(bs, w + 1, Len(bs)))
         IN  IF rest = << >> THEN << >>
             ELSE << << Utf8Point(bs, w) >> \o rest[1] >>

\* Reading in text mode: CR LF and a lone CR are read as LF.
RECURSIVE UniversalNewlines(_)
UniversalNewlines(text) ==
    IF text = << >> THEN << >>
    ELSE IF Head(text) = 13
         THEN IF Len(text) >= 2 /\ text[2] = 10
              THEN << 10 >> \o UniversalNewlines(SubSeq(text, 3, Len(text)))
              ELSE << 10 >> \o UniversalNewlines(Tail(text))
    ELSE << Head(text) >> \o UniversalNewlines(Tail(text))

---------------------------------------------------------------------------
(* Strings used as inputs *)

\* "2020-01-01"
D_2020_01_01 == << 50, 48, 50, 48, 45, 48, 49, 45, 48, 49 >>
\* "2020-05-05"
D_2020_05_05 == << 50, 48, 50, 48, 45, 48, 53, 45, 48, 53 >>
\* "2024-01-01"
D_2024_01_01 == << 50, 48, 50, 52, 45, 48, 49, 45, 48, 49 >>
\* "2024-06-30T12:00:00"
D_2024_06_30T == << 50, 48, 50, 52, 45, 48, 54, 45, 51, 48,
                    84, 49, 50, 58, 48, 48, 58, 48, 48 >>
\* "\n"
Newline == << 10 >>

\* A URL: the endpoint and the page its query string names (0: no query
\* string).
Url(endpoint, page) == [ endpoint |-> endpoint, page |-> page ]

\* f"{BASE_URL.rstrip('/')}/{endpoint.lstrip('/')}" for endpoint "/opinions/"
OpinionsUrl ==
    Url("https://www.courtlistener.com/api/rest/v3/opinions/", 0)

\* The absolute continuation reference of page k, as the server writes it.
PageUrl(k) == Url(OpinionsUrl.endpoint, k)

---------------------------------------------------------------------------
(* Configuration of client.py *)

MAX_RETRIES == 6
\* 1.5 seconds, counted in tenths of a second.
BACKOFF_FACTOR == 15

RETRY_STATUSES == {429, 500, 502, 503, 504}

---------------------------------------------------------------------------
(* The outcomes of one GET *)

\* A response body.  json: "invalid" (does not decode), "array" (decodes to
\* a value that is no object), "object".  For an object: whether it has the
\* key "results", whether that value has a length (null has none), the
\* records, and the value of "next" (None for null or a missing key).
Body(json, has_results, results_sized, results, next) ==
    [ json |-> json, has_results |-> has_results,
      results_sized |-> results_sized, results |-> results, next |-> next ]

PageBody(results, next) == Body("object", TRUE, TRUE, results, next)
InvalidJsonBody == Body("invalid", FALSE, FALSE, << >>, None)
NonObjectBody == Body("array", FALSE, FALSE, << >>, None)
NoResultsBody(next) == Body("object", FALSE, FALSE, << >>, next)
NullResultsBody == Body("object", TRUE, FALSE, << >>, None)

Fault(name) == [ kind |-> "fault", fault |-> name, status |-> 0,
                 body |-> InvalidJsonBody ]
Response(status, body) == [ kind |-> "response", fault |-> "",
                            status |-> status, body |-> body ]
NoResponse == [ kind |-> "none", fault |-> "", status |-> 0,
                body |-> InvalidJsonBody ]

\* Exceptions session.get raises, by class.
Faults == { "ReadTimeout", "ConnectTimeout", "ConnectionError",
            "TooManyRedirects" }

\* The classes of requests.exceptions that derive from RequestException
\* alone (besides builtin classes).
PlainRequestExceptions ==
    { "HTTPError", "ConnectionError", "Timeout", "InvalidJSONError",
      "URLRequired", "TooManyRedirects", "MissingSchema", "InvalidSchema",
      "InvalidURL", "InvalidHeader", "ChunkedEncodingError",
      "StreamConsumedError", "RetryError", "UnrewindableBodyError" }

\* The classes an exception is an instance of: the class hierarchy of
\* requests.exceptions, builtin classes left out.  "HTTPError" is
\* requests.HTTPError, the class line 82 names; the HTTPError of urllib3,
\* a base of ContentDecodingError, is another class and carries its module.
\* An exception that is none of requests' is an instance of its own class.
Ancestors(exc) ==
    CASE exc = "RequestException" -> { "RequestException" }
      [] exc \in PlainRequestExceptions -> { exc, "RequestException" }
      [] exc = "ReadTimeout" -> { "ReadTimeout", "Timeout", "RequestException" }
      [] exc = "ConnectTimeout" ->
            { "ConnectTimeout", "ConnectionError", "Timeout", "RequestException" }
      [] exc \in { "SSLError", "ProxyError" } ->
            { exc, "ConnectionError", "RequestException" }
      [] exc = "JSONDecodeError" ->
            { "JSONDecodeError", "InvalidJSONError", "RequestException" }
      [] exc = "InvalidProxyURL" ->
            { "InvalidProxyURL", "InvalidURL", "RequestException" }
      [] exc = "ContentDecodingError" ->
            { "ContentDecodingError", "RequestException", "urllib3.HTTPError" }
      [] OTHER -> { exc }

\* Statuses the server answers with.
Statuses == { 200, 299, 300, 403, 429, 500, 501, 502, 503, 504 }

\* A record as the server sends it: an id and, when d is a value, date_filed.
Opinion(id, d) ==
    IF d = None THEN [ id |-> id ] ELSE [ id |-> id, date_filed |-> d[1] ]

\* The server's opinions, in the order it lists them: an older one, a newer
\* one with a time of day, one with no date_filed, and so on.
DatePattern == << Some(D_2020_05_05), Some(D_2024_06_30T), None >>
DbSize == MaxPerPage * MaxPages
Database ==
    [ k \in 1..DbSize |-> Opinion(k, DatePattern[((k - 1) % Len(DatePattern)) + 1]) ]

\* The server honours date_filed_min: with the filter it lists the opinions
\* filed on that date or later, without it all of them.
Matches(rec, fs) ==
    \/ fs = << >>
    \/ "date_filed" \in DOMAIN rec /\ ~ StrLess(rec.date_filed, fs[1][2])

Listing(fs) == SelectSeq(Database, LAMBDA r : Matches(r, fs))

\* The number of records on the pages served so far.
RECURSIVE ServedCount(_)
ServedCount(pages) ==
    IF pages = << >> THEN 0
    ELSE Len(pages[1].body.results) + ServedCount(Tail(pages))

\* The records a page may carry after s records were served: the next m of
\* the listing, for any page size m.
PageResults(s, fs) ==
    { SubSeq(Listing(fs), s + 1, s + m) :
        m \in 0..Min(MaxPerPage, Len(Listing(fs)) - s) }

\* The next references the server may answer the n-th call of a run with:
\* none, the reference of the page after it, or one it handed out before.
PageNexts(n) ==
    IF n < MaxPages
    THEN { None } \cup { Some(PageUrl(k)) : k \in 2..(n + 1) }
    ELSE { None }

\* Every outcome of the GET of the n-th call of a run whose filters are fs,
\* after `served` records were served.
\* The body of a response with an error status is never read: one stands
\* for all.  A page comes with status 200; the other statuses below 400
\* come with a body that is no page or with a page of no records.
Outcomes(n, served, fs) ==
    { Fault(f) : f \in Faults }
    \cup { Response(st, InvalidJsonBody) : st \in Statuses }
    \cup { Response(st, b) : st \in { t \in Statuses : t < 400 },
                            b \in { NonObjectBody, NullResultsBody,
                                    PageBody(<< >>, None) } }
    \cup { Response(200, NoResultsBody(nx)) : nx \in PageNexts(n) }
    \cup { Response(200, PageBody(rs, nx)) :
               rs \in PageResults(served, fs), nx \in PageNexts(n) }

\* The class the specification's Retry Classifier gives an outcome; the log
\* of a call notes it beside what the code did.
\*   retryable  status 429, 500, 502, 503, 504, a connection fault, a read
\*              timeout
\*   success    status in [200, 299) and a body of the page shape
\*   fatal      everything else
OutcomeClass(o) ==
    IF o.kind = "fault"
    THEN IF o.fault \in { "ReadTimeout", "ConnectTimeout", "ConnectionError" }
         THEN "retryable" ELSE "fatal"
    ELSE IF o.status \in { 429, 500, 502, 503, 504 } THEN "retryable"
    ELSE IF /\ 200 <= o.status /\ o.status < 299
            /\ o.body.json = "object"
            /\ o.body.has_results /\ o.body.results_sized
         THEN "success"
    ELSE "fatal"

---------------------------------------------------------------------------
(* client.py: _get_with_retries *)

\* Response.raise_for_status(): HTTPError for a 4xx or 5xx status.
RaiseForStatus(status) == 400 <= status /\ status < 600

\* A variant of TryBlock that rejects a page without records.
TryBlock_RejectsEmptyPage(o) ==
    IF o.kind = "fault" THEN o.fault
    ELSE IF o.status \in RETRY_STATUSES THEN "HTTPError"
    ELSE IF RaiseForStatus(o.status) THEN "HTTPError"
    ELSE IF o.body.json = "invalid" THEN "JSONDecodeError"
    ELSE IF o.body.json /= "object" THEN "AttributeError"
    ELSE IF o.body.has_results /\ ~ o.body.results_sized THEN "TypeError"
    ELSE IF o.body.results = << >> THEN "ValueError"
    ELSE ""

\* The exception raised inside the try block (lines 47-74) for outcome o;
\* "" when the block returns resp.
TryBlock(o) ==
    IF o.kind = "fault" THEN o.fault
    ELSE IF o.status \in RETRY_STATUSES THEN "HTTPError"
    ELSE IF RaiseForStatus(o.status) THEN "HTTPError"
    ELSE IF o.body.json = "invalid" THEN "JSONDecodeError"
    ELSE IF o.body.json /= "object" THEN "AttributeError"
    ELSE IF o.body.has_results /\ ~ o.body.results_sized THEN "TypeError"
    ELSE ""

\* The except clauses (lines 76-92), tried in order, for exception exc
\* raised on outcome o: "retry" when the clause falls through to the retry
\* code, "raise" when the exception leaves the function.
ExceptClause(exc, o) ==
    IF "ReadTimeout" \in Ancestors(exc) THEN "retry"
    ELSE IF "ConnectionError" \in Ancestors(exc) THEN "retry"
    ELSE IF "HTTPError" \in Ancestors(exc)
         THEN IF o.status \in RETRY_STATUSES THEN "retry" ELSE "raise"
    ELSE "raise"

\* What one iteration of the loop does with outcome o.
Classify(o) ==
    IF TryBlock(o) = "" THEN "success"
    ELSE IF ExceptClause(TryBlock(o), o) = "retry" THEN "retryable"
    ELSE "fatal"

RECURSIVE Pow2(_)
Pow2(n) == IF n <= 0 THEN 1 ELSE 2 * Pow2(n - 1)

\* A variant of SleepFor that grows by BACKOFF_FACTOR per attempt.
SleepFor_Linear(a) == BACKOFF_FACTOR * a

\* sleep_for = BACKOFF_FACTOR * (2 ** (attempt - 1))
SleepFor(a) == BACKOFF_FACTOR * Pow2(a - 1)

\* A variant of Exhausted that allows one attempt more.
Exhausted_OneMore(a) == a > MAX_RETRIES

\* attempt >= MAX_RETRIES
Exhausted(a) == a >= MAX_RETRIES

---------------------------------------------------------------------------
(* main.py: helpers *)

\* extract_date_filed: opinion.get("date_filed"), falsy -> None, else [:10]
extract_date_filed(opinion) ==
    IF "date_filed" \notin DOMAIN opinion THEN None
    ELSE IF opinion.date_filed = << >> THEN None
    ELSE Some(Prefix(opinion.date_filed, 10))

\* The keys of a fields list, a sequence of key names.
FieldKeys(fields) == { fields[k] : k \in 1..Len(fields) }

\* filter_fields: the record itself when fields is None or empty, else the
\* listed keys the record has.
filter_fields(record, fields) ==
    IF fields = None \/ fields[1] = << >> THEN record
    ELSE [ k \in FieldKeys(fields[1]) \cap DOMAIN record |-> record[k] ]

\* Path.read_text(encoding="utf-8"): << text >>, or << >> when the bytes
\* are no utf-8 and it raises.
ReadText(bytes) ==
    IF Utf8Decode(bytes) = << >> THEN << >>
    ELSE << UniversalNewlines(Utf8Decode(bytes)[1]) >>

\* read_since_file: None for a missing file, for one that cannot be read
\* (the exception is swallowed) and for a blank one, else its stripped text.
read_since_file(file) ==
    IF file = None THEN None
    ELSE IF ReadText(file[1]) = << >> THEN None
    ELSE IF Strip(ReadText(file[1])[1]) = << >> THEN None
    ELSE Some(Strip(ReadText(file[1])[1]))

\* write_since_file: write_text opens the file with mode "w", which empties
\* it, and writes date_str.strip(); when that cannot be encoded it raises
\* UnicodeEncodeError (main catches it, line 134) and the file stays empty.
write_since_file(date_str) ==
    IF CanEncode(Strip(date_str)) THEN Some(Utf8Encode(Strip(date_str)))
    ELSE Some(<< >>)

\* A variant of TrackNewest that keeps the date of the latest dated record.
TrackNewest_Latest(newest, rec) ==
    LET d == extract_date_filed(rec) IN
    IF Truthy(d) THEN d ELSE newest

\* The tracker of main's loop body (lines 108-111).
TrackNewest(newest, rec) ==
    LET d == extract_date_filed(rec) IN
    IF Truthy(d) /\ (newest = None \/ StrLess(newest[1], d[1])) THEN d
    ELSE newest

\* A variant of InitialNewestDate that starts the tracker at a date.
InitialNewestDate_Seeded == Some(D_2024_06_30T)

\* Line 103: newest_date = None
InitialNewestDate == None

\* A variant of EffectiveDateMin that prefers the since-file's content.
EffectiveDateMin_FileFirst(a, file) ==
    IF a.since_file /\ Truthy(read_since_file(file))
    THEN read_since_file(file)
    ELSE a.date_min

\* Lines 81-87: --date_min, else the since-file's content when there is one.
EffectiveDateMin(a, file) ==
    IF ~ Truthy(a.date_min) /\ a.since_file /\ Truthy(read_since_file(file))
    THEN read_since_file(file)
    ELSE a.date_min

\* Lines 97-99: the filters dict, a sequence of <<key, value>> items.
BuildFilters(date_min) ==
    IF Truthy(date_min) THEN << << "date_filed_min", date_min[1] >> >> ELSE << >>

\* The line json.dumps(item, ensure_ascii=False) makes of a record can be
\* written to a utf-8 file: no text of the record (every value but the id
\* is text) holds a lone surrogate.
Encodable(item) ==
    \A key \in DOMAIN item \ { "id" } : CanEncode(item[key])

\* The items before the first one that cannot be written: all of them when
\* every item can.
Writable(items) ==
    IF \A k \in 1..Len(items) : Encodable(items[k]) THEN items
    ELSE SubSeq(items, 1,
                (CHOOSE k \in 1..Len(items) :
                     /\ ~ Encodable(items[k])
                     /\ \A m \in 1..(k - 1) : Encodable(items[m])) - 1)

\* save_jsonl opens the file with mode "w" and writes one line per item,
\* up to the first item whose line cannot be encoded.
save_jsonl(old, items) == Some(Writable(items))

\* A line of the output file that broke off before its end.
TornLine == [ torn |-> TRUE ]

\* The content of users.json when its text is no JSON: an empty file or a
\* text that broke off.
NoJson == << << >>, "no JSON" >>

\* json.loads(USERS_FILE.read_text()) returns: the file is missing (it is
\* created first) or holds an index.
Parseable(db) == db /= NoJson

\* A variant of AfterWriteError in which main carries on after a failed
\* write.
AfterWriteError_Swallowed(step) == IF step = "save" THEN "index" ELSE "since"

\* Lines 123-125 are in no try block: an exception raised by save_jsonl or
\* add_user_record leaves main.
AfterWriteError(step) == "failed"

\* "data"
DATA_DIR == << 100, 97, 116, 97 >>
\* "_opinions.jsonl"
OpinionsSuffix ==
    << 95, 111, 112, 105, 110, 105, 111, 110, 115, 46, 106, 115, 111, 110, 108 >>
\* "/"
Slash == 47

\* The root pathlib gives a POSIX path: "//" for exactly two leading
\* slashes, "/" for any other number of them, "" for a relative path.
PathRoot(s) ==
    IF s = << >> \/ s[1] /= Slash THEN << >>
    ELSE IF Len(s) >= 2 /\ s[2] = Slash /\ (Len(s) = 2 \/ s[3] /= Slash)
         THEN << Slash, Slash >>
    ELSE << Slash >>

\* The components pathlib keeps of a path: the pieces between slashes but
\* the empty ones and the "." ones.
RECURSIVE PathParts(_)
PathParts(s) ==
    IF s = << >> THEN << >>
    ELSE LET cut == IF \E k \in 1..Len(s) : s[k] = Slash
                    THEN CHOOSE k \in 1..Len(s) :
                             /\ s[k] = Slash
                             /\ \A m \in 1..(k - 1) : s[m] /= Slash
                    ELSE Len(s) + 1
             piece == SubSeq(s, 1, cut - 1)
             rest == PathParts(SubSeq(s, cut + 1, Len(s)))
         IN  IF piece = << >> \/ piece = << 46 >> THEN rest
             ELSE << piece >> \o rest

\* The components joined by slashes.
RECURSIVE JoinParts(_)
JoinParts(parts) ==
    IF parts = << >> THEN << >>
    ELSE IF Len(parts) = 1 THEN parts[1]
    ELSE parts[1] \o << Slash >> \o JoinParts(Tail(parts))

\* str(Path(dir) / name): an absolute name replaces dir.
PathJoin(dir, name) ==
    IF PathRoot(name) /= << >>
    THEN PathRoot(name) \o JoinParts(PathParts(name))
    ELSE JoinParts(PathParts(dir) \o PathParts(name))

\* The path of the output file of a user:
\* DATA_DIR / f"{args.user}_opinions.jsonl"
OutputPath(user) == PathJoin(DATA_DIR, user \o OpinionsSuffix)

\* add_user_record on the content db of users.json (None: created first with
\* an empty user list).
add_user_record(db, username, path) ==
    LET users == IF db = None THEN << >> ELSE db[1]
        known == { k \in 1..Len(users) : users[k].username = username }
    IN  IF known = { }
        THEN Some(Append(users, [ username |-> username,
                                  saved_files |-> << path >> ]))
        ELSE LET k == CHOOSE m \in known : \A n \in known : m <= n
             IN  Some([ users EXCEPT ![k].saved_files = Append(@, path) ])

---------------------------------------------------------------------------
(* The state after argument parsing *)

\* parser.add_argument("--limit", type=int, default=10)
DefaultLimit == 10

\* "alice"
UserAlice == << 97, 108, 105, 99, 101 >>

FieldsChoices == { None, Some(<< "id", "absolute_url" >>) }

\* The command lines tried.  --fields is given on all of them but the
\* ones with neither --date_min nor --since-file, which are tried with and
\* without it.
ArgsChoices ==
    { a \in [ user : { UserAlice },
              limit : 0..MaxLimit \cup { DefaultLimit },
              date_min : { None, Some(D_2020_01_01) },
              fields : FieldsChoices,
              since_file : BOOLEAN ] :
        a.fields = None => (a.date_min = None /\ ~ a.since_file) }

\* What the since-file may hold when a run begins.
SinceFileChoices == { None, Some(D_2024_01_01 \o Newline) }

\* A run begins, users.json being index (None: no such file).
Start(index) ==
    /\ args \in ArgsChoices
    /\ since_file \in IF args.since_file THEN SinceFileChoices ELSE { None }
    /\ since_before = since_file
    /\ output_file = None
    /\ output_before = output_file
    /\ users_file = index
    /\ run = 1
    /\ pc = "start"
    /\ filters = << >>
    /\ collected = << >>
    /\ newest_date = None
    /\ i = 0
    /\ gen = "none"
    /\ url = None
    /\ first_request = TRUE
    /\ params = None
    /\ data = InvalidJsonBody
    /\ idx = 0
    /\ attempt = 0
    /\ resp = NoResponse
    /\ error = ""
    /\ call_log = << >>
    /\ n_calls = 0
    /\ fetched = << >>
    /\ yielded = << >>

\* The first run in a directory: there is no data/users.json yet.
Init == Start(None)

---------------------------------------------------------------------------
(* Actions *)

\* main, lines 78-106: the filters are built and client.opinions(**filters)
\* creates the generator, which has not run yet.
MainBegin ==
    /\ pc = "start"
    /\ pc' = "loop"
    /\ filters' = BuildFilters(EffectiveDateMin(args, since_file))
    /\ collected' = << >>
    /\ newest_date' = InitialNewestDate
    /\ gen' = "created"
    /\ params' = Some(filters')
    /\ UNCHANGED << args, since_file, output_file, users_file, i, url,
                    first_request, data, idx, attempt, resp, error, call_log,
                    n_calls, fetched, yielded, since_before, output_before, run >>

\* fetch_paginated, lines 109-113: the first next() runs the generator up to
\* its first call of _get_with_retries (line 43: attempt = 0).
StreamBegin ==
    /\ pc = "loop"
    /\ gen = "created"
    /\ url' = Some(OpinionsUrl)
    /\ first_request' = TRUE
    /\ gen' = "call"
    /\ attempt' = 0
    /\ call_log' = << >>
    /\ n_calls' = n_calls + 1
    /\ UNCHANGED << args, since_file, output_file, users_file, pc, filters,
                    collected, newest_date, i, params, data, idx, resp, error,
                    fetched, yielded, since_before, output_before, run >>

\* An entry of call_log: the request of one attempt, the class of its
\* outcome, what the loop made of it, and the sleep that followed it (None:
\* no sleep).
LogEntry(u, ps, o, sleep) ==
    [ url |-> u, params |-> ps, outcome |-> OutcomeClass(o),
      class |-> Classify(o), sleep |-> sleep ]

\* _get_with_retries, one iteration of the loop of lines 45-101, with the
\* return into fetch_paginated (lines 118-125) when the try block returns.
Attempt(o) ==
    LET a == attempt + 1
        ps == IF first_request THEN params ELSE None
        class == Classify(o)
    IN
    /\ attempt' = a
    /\ resp' = o
    /\ IF class = "success"
       THEN /\ gen' = "page"
            /\ data' = o.body
            /\ idx' = 1
            /\ fetched' = Append(fetched, [ url |-> url[1], body |-> o.body ])
            /\ call_log' = Append(call_log, LogEntry(url[1], ps, o, None))
            /\ UNCHANGED error
       ELSE IF class = "fatal"
       THEN /\ gen' = "raised"
            /\ error' = TryBlock(o)
            /\ call_log' = Append(call_log, LogEntry(url[1], ps, o, None))
            /\ UNCHANGED << data, idx, fetched >>
       ELSE IF Exhausted(a)
       THEN /\ gen' = "raised"
            /\ error' = "RetryError"
            /\ call_log' = Append(call_log, LogEntry(url[1], ps, o, None))
            /\ UNCHANGED << data, idx, fetched >>
       ELSE /\ gen' = "call"
            /\ call_log' =
                 Append(call_log, LogEntry(url[1], ps, o, Some(SleepFor(a))))
            /\ UNCHANGED << data, idx, fetched, error >>

GetWithRetries ==
    /\ pc = "loop"
    /\ gen = "call"
    /\ \E o \in Outcomes(n_calls, ServedCount(fetched), filters) : Attempt(o)
    /\ UNCHANGED << args, since_file, output_file, users_file, pc, filters,
                    collected, newest_date, i, url, first_request, params,
                    n_calls, yielded, since_before, output_before, run >>

\* A variant of Results that leaves out the first record of a page.
Results_SkipsFirst(d) ==
    IF d.has_results /\ d.results /= << >> THEN Tail(d.results) ELSE << >>

\* data.get("results", [])
Results(d) == IF d.has_results THEN d.results ELSE << >>

\* A variant of LimitReached that breaks one record later.
LimitReached_OneLate(n, limit) == n > limit

\* i >= args.limit
LimitReached(n, limit) == n >= limit

\* A variant of PageDone that leaves the page before its last record.
PageDone_BeforeLast(d, k) == k >= Len(Results(d))

\* The for loop of line 125 has gone through the page: k is the position
\* of the item to yield next.
PageDone(d, k) == k > Len(Results(d))

\* The locals of fetch_paginated are gone once the generator has returned,
\* raised, or been closed after main's break.
FrameDropped ==
    /\ url' = None
    /\ first_request' = TRUE
    /\ params' = None
    /\ data' = InvalidJsonBody
    /\ idx' = 0

\* A variant of CallForgotten that carries the attempt counter over to the
\* next call.
CallForgotten_KeepsAttempt ==
    /\ UNCHANGED attempt
    /\ resp' = NoResponse
    /\ call_log' = << >>

\* The locals of _get_with_retries are gone once it has returned or raised;
\* the model keeps them, and the log of the call, for the one state that
\* follows the call.
CallForgotten ==
    /\ attempt' = 0
    /\ resp' = NoResponse
    /\ call_log' = << >>

\* fetch_paginated line 126 yields the next item of the page and main's loop
\* body (lines 106-116) consumes it; on break the generator is closed.
YieldRecord ==
    /\ pc = "loop"
    /\ gen = "page"
    /\ ~ PageDone(data, idx)
    /\ LET rec == Results(data)[idx] IN
       /\ yielded' = Append(yielded, rec)
       /\ newest_date' = TrackNewest(newest_date, rec)
       /\ collected' = Append(collected, filter_fields(rec, args.fields))
    /\ i' = i + 1
    /\ IF LimitReached(i', args.limit)
       THEN pc' = "save" /\ gen' = "closed" /\ FrameDropped
       ELSE /\ idx' = idx + 1
            /\ UNCHANGED << pc, gen, url, first_request, params, data >>
    /\ CallForgotten
    /\ UNCHANGED << args, since_file, output_file, users_file, filters, error,
                    n_calls, fetched, since_before, output_before, run >>

\* A variant of NextUrl that goes back to the endpoint for every next page.
NextUrl_Endpoint(d) == IF d.next = None THEN None ELSE Some(OpinionsUrl)

\* data.get("next")
NextUrl(d) == d.next

\* fetch_paginated, lines 128-130 and the loop test of line 112, run when
\* main asks for a record after the last one of the page: either the next
\* call of _get_with_retries begins or the generator returns and main's for
\* loop ends.
NextPage ==
    /\ pc = "loop"
    /\ gen = "page"
    /\ PageDone(data, idx)
    /\ IF NextUrl(data) /= None
       THEN /\ first_request' = FALSE
            /\ params' = None
            /\ url' = NextUrl(data)
            /\ gen' = "call"
            /\ n_calls' = n_calls + 1
            /\ UNCHANGED << pc, data, idx >>
       ELSE /\ gen' = "returned"
            /\ pc' = "save"
            /\ FrameDropped
            /\ UNCHANGED n_calls
    /\ CallForgotten
    /\ UNCHANGED << args, since_file, output_file, users_file, filters,
                    collected, newest_date, i, error, fetched, yielded,
                    since_before, output_before, run >>

\* A variant of Reraise that raises whatever was collected.
Reraise_Always(items) == TRUE

\* if not collected: raise
Reraise(items) == items = << >>

\* The builtin exceptions that are no Exception: BaseException itself and
\* its subclasses outside Exception.
NonExceptions ==
    { "BaseException", "BaseExceptionGroup", "GeneratorExit",
      "KeyboardInterrupt", "SystemExit" }

\* except Exception (line 117) catches exc.
IsException(exc) == exc \notin NonExceptions

\* main, lines 117-121: the exception leaves the generator; one that is no
\* Exception leaves main too, any other reaches the except clause and with
\* nothing collected it is raised again.
FetchError ==
    /\ pc = "loop"
    /\ gen = "raised"
    /\ pc' = IF ~ IsException(error) THEN "failed"
             ELSE IF Reraise(collected) THEN "failed"
             ELSE "save"
    /\ gen' = "failed"
    /\ FrameDropped
    /\ CallForgotten
    /\ UNCHANGED << args, since_file, output_file, users_file, filters,
                    collected, newest_date, i, error, n_calls, fetched, yielded,
                    since_before, output_before, run >>

\* main, lines 123-124.  f.write raises UnicodeEncodeError at the first line
\* that cannot be encoded; the lines before it are in the file.
SaveJsonl ==
    /\ pc = "save"
    /\ output_file' = save_jsonl(output_file, collected)
    /\ IF Writable(collected) = collected
       THEN pc' = "index" /\ UNCHANGED error
       ELSE pc' = AfterWriteError("save") /\ error' = "UnicodeEncodeError"
    /\ UNCHANGED << args, since_file, users_file, filters, collected,
                    newest_date, i, gen, url, first_request, params, data, idx,
                    attempt, resp, call_log, n_calls, fetched, yielded,
                    since_before, output_before, run >>

\* main, line 125.  json.loads raises json.JSONDecodeError on a users.json
\* whose text is no JSON, and the file stays as it is.
AddUserRecord ==
    /\ pc = "index"
    /\ IF Parseable(users_file)
       THEN /\ users_file' = add_user_record(users_file, args.user,
                                             OutputPath(args.user))
            /\ pc' = "since"
            /\ UNCHANGED error
       ELSE /\ UNCHANGED users_file
            /\ pc' = AfterWriteError("index")
            /\ error' = "json.JSONDecodeError"
    /\ UNCHANGED << args, since_file, output_file, filters, collected,
                    newest_date, i, gen, url, first_request, params, data, idx,
                    attempt, resp, call_log, n_calls, fetched, yielded,
                    since_before, output_before, run >>

\* if since_path and newest_date
ShouldWriteSince(a, newest) == a.since_file /\ Truthy(newest)

\* main, lines 129-135.
UpdateSinceFile ==
    /\ pc = "since"
    /\ since_file' = IF ShouldWriteSince(args, newest_date)
                     THEN write_since_file(newest_date[1])
                     ELSE since_file
    /\ pc' = "done"
    /\ UNCHANGED << args, output_file, users_file, filters, collected,
                    newest_date, i, gen, url, first_request, params, data, idx,
                    attempt, resp, error, call_log, n_calls, fetched, yielded,
                    since_before, output_before, run >>

Next ==
    \/ MainBegin
    \/ StreamBegin
    \/ GetWithRetries
    \/ YieldRecord
    \/ NextPage
    \/ FetchError
    \/ SaveJsonl
    \/ AddUserRecord
    \/ UpdateSinceFile

Spec == Init /\ [][Next]_vars

---------------------------------------------------------------------------
(* Successive runs *)

\* main is run again with the same command line once the run before it has
\* ended: the files stay as that run left them, everything else starts
\* afresh.
NextRun ==
    /\ pc \in { "done", "failed" }
    /\ run < MaxRuns
    /\ run' = run + 1
    /\ since_before' = since_file
    /\ output_before' = output_file
    /\ pc' = "start"
    /\ filters' = << >>
    /\ collected' = << >>
    /\ newest_date' = None
    /\ i' = 0
    /\ gen' = "none"
    /\ error' = ""
    /\ n_calls' = 0
    /\ fetched' = << >>
    /\ yielded' = << >>
    /\ FrameDropped
    /\ CallForgotten
    /\ UNCHANGED << args, since_file, output_file, users_file >>

\* The command lines of the successive runs: those with a --limit below the
\* default and without --date_min and --since-file.
InitRuns ==
    /\ Init
    /\ args.limit <= MaxLimit
    /\ args.date_min = None
    /\ ~ args.since_file

NextRuns == Next \/ NextRun

SpecRuns == InitRuns /\ [][NextRuns]_vars

---------------------------------------------------------------------------
(* Failing writes *)

\* The content a file is left with when writing bytes to it, after it was
\* opened with mode "w", breaks off: a proper prefix of the bytes.
TornText(bytes) == { SubSeq(bytes, 1, k) : k \in 0..(Len(bytes) - 1) }

\* save_jsonl raises OSError: before the file was opened (it is as it was),
\* or after it was opened with mode "w" and some of the lines were written,
\* the last of them in whole or in part.
SaveJsonlFails ==
    /\ pc = "save"
    /\ output_file' \in { output_file }
           \cup { Some(SubSeq(collected, 1, k)) :
                      k \in 0..(Len(Writable(collected)) - 1) }
           \cup { Some(Append(SubSeq(collected, 1, k), TornLine)) :
                      k \in 0..(Len(Writable(collected)) - 1) }
    /\ error' = "OSError"
    /\ pc' = AfterWriteError("save")
    /\ UNCHANGED << args, since_file, users_file, filters, collected,
                    newest_date, i, gen, url, first_request, params, data, idx,
                    attempt, resp, call_log, n_calls, fetched, yielded,
                    since_before, output_before, run >>

\* add_user_record raises OSError: users.json is as it was, or was just
\* created by ensure_users_file with an empty user list, or was opened by
\* write_text (line 15 or 25), which empties it, and the text broke off.
AddUserRecordFails ==
    /\ pc = "index"
    /\ users_file' \in { users_file, NoJson }
           \cup (IF users_file = None THEN { Some(<< >>) } ELSE { })
    /\ error' = "OSError"
    /\ pc' = AfterWriteError("index")
    /\ UNCHANGED << args, since_file, output_file, filters, collected,
                    newest_date, i, gen, url, first_request, params, data, idx,
                    attempt, resp, call_log, n_calls, fetched, yielded,
                    since_before, output_before, run >>

\* write_since_file raises OSError (lines 131-135): the exception is caught
\* and reported, and the file is as it was, or was opened by write_text,
\* which empties it, and holds the first bytes of the date.
UpdateSinceFileFails ==
    /\ pc = "since"
    /\ ShouldWriteSince(args, newest_date)
    /\ since_file' \in { since_file }
           \cup IF CanEncode(Strip(newest_date[1]))
                THEN { Some(t) :
                         t \in TornText(Utf8Encode(Strip(newest_date[1]))) }
                ELSE { }
    /\ pc' = "done"
    /\ UNCHANGED << args, output_file, users_file, filters, collected,
                    newest_date, i, gen, url, first_request, params, data, idx,
                    attempt, resp, error, call_log, n_calls, fetched, yielded,
                    since_before, output_before, run >>

\* The command lines with a since-file, in a directory without users.json
\* or, for the limits below the default, with one whose text is no JSON.
InitIO ==
    /\ \E index \in { None, NoJson } :
           /\ Start(index)
           /\ index = NoJson => args.limit <= MaxLimit
    /\ args.since_file

NextIO ==
    \/ Next
    \/ SaveJsonlFails
    \/ AddUserRecordFails
    \/ UpdateSinceFileFails

SpecIO == InitIO /\ [][NextIO]_vars

---------------------------------------------------------------------------
(* Properties *)

Last(seq) == seq[Len(seq)]
Front(seq) == SubSeq(seq, 1, Len(seq) - 1)

\* Every attempt of the log had a retryable outcome.
AllRetryable(log) == \A k \in 1..Len(log) : log[k].outcome = "retryable"

\* The number of sleeps of the log.
Sleeps(log) == Cardinality({ k \in 1..Len(log) : log[k].sleep /= None })

\* C1.  A call of _get_with_retries whose attempts all have a retryable
\* outcome is still running, having slept after each attempt, while fewer
\* than MAX_RETRIES attempts were made; with the MAX_RETRIES-th attempt it
\* fails with RetryError, after exactly MAX_RETRIES GETs and MAX_RETRIES - 1
\* sleeps, none of them after the last attempt.
C1_ExhaustedAfterMaxRetries ==
    (call_log /= << >> /\ AllRetryable(call_log)) =>
        /\ attempt = Len(call_log)
        /\ Len(call_log) <= MAX_RETRIES
        /\ \A k \in 1..Len(call_log) :
               (call_log[k].sleep /= None) <=> (k < MAX_RETRIES)
        /\ IF Len(call_log) = MAX_RETRIES
           THEN /\ gen = "raised"
                /\ error = "RetryError"
                /\ Sleeps(call_log) = MAX_RETRIES - 1
           ELSE gen = "call" /\ error = ""

\* A call has just failed with RetryError after MAX_RETRIES retryable
\* outcomes.
C1_Witness ==
    /\ gen = "raised"
    /\ error = "RetryError"
    /\ Len(call_log) = MAX_RETRIES
    /\ AllRetryable(call_log)

\* C2.  When attempt k of a call is a success and the k - 1 attempts before
\* it had retryable outcomes, the call has returned that response, as the
\* page fetch_paginated goes through, after exactly k GETs and k - 1 sleeps,
\* k <= MAX_RETRIES; it is over, so no attempt follows.
C2_SuccessAfterRetries ==
    ( /\ call_log /= << >>
      /\ Last(call_log).outcome = "success"
      /\ AllRetryable(Front(call_log)) ) =>
        /\ attempt = Len(call_log)
        /\ Len(call_log) <= MAX_RETRIES
        /\ Sleeps(call_log) = Len(call_log) - 1
        /\ Last(call_log).sleep = None
        /\ gen = "page"
        /\ error = ""
        /\ data = resp.body
        /\ fetched /= << >>
        /\ Last(fetched) = [ url |-> url[1], body |-> resp.body ]

\* A call has returned a page on its last allowed attempt.
C2_Witness ==
    /\ gen = "page"
    /\ Len(call_log) = MAX_RETRIES
    /\ Last(call_log).outcome = "success"
    /\ AllRetryable(Front(call_log))
    /\ Sleeps(call_log) = MAX_RETRIES - 1

\* C3.  A fatal outcome on an attempt of a call (every outcome that the
\* classifier calls neither retryable nor a success: a 403, but also a 300
\* or a 200 whose object has no records array) ends the call with an error
\* at that attempt: the call has raised an error that is not the exhaustion
\* of the retries, no sleep follows the attempt and no further attempt is
\* issued.
C3_FatalEndsCall ==
    ( call_log /= << >> /\ OutcomeClass(resp) = "fatal" ) =>
        /\ gen = "raised"
        /\ error \notin { "", "RetryError" }
        /\ attempt = Len(call_log)
        /\ Last(call_log).sleep = None

\* The records of a sequence of fetched pages, page after page.
RECURSIVE PageRecords(_)
PageRecords(pages) ==
    IF pages = << >> THEN << >>
    ELSE pages[1].body.results \o PageRecords(Tail(pages))

\* The pages form a chain of pages of m records each: every page but the
\* last carries a next reference and the last carries none.
UniformChain(pages, m) ==
    /\ pages /= << >>
    /\ \A k \in 1..Len(pages) :
           /\ pages[k].body.has_results
           /\ Len(pages[k].body.results) = m
           /\ (pages[k].body.next = None) <=> (k = Len(pages))

\* C4.  No page is fetched after a page without a next reference, and a
\* stream that was consumed to its end has yielded the records of the pages
\* it fetched, page after page and in the order of each page, with one call
\* of the executor per page; for a chain of N pages of M records each that
\* is N * M records and N calls.
C4_ChainYieldsAllInOrder ==
    /\ \A k \in 1..(Len(fetched) - 1) : fetched[k].body.next /= None
    /\ gen = "returned" =>
           /\ Last(fetched).body.next = None
           /\ yielded = PageRecords(fetched)
           /\ n_calls = Len(fetched)
           /\ pc /= "loop"
           /\ \A m \in 0..Len(yielded) :
                  UniformChain(fetched, m) =>
                      Len(yielded) = Len(fetched) * m

\* A chain of 3 pages of 2 records each was consumed to its end.
C4_Witness ==
    /\ gen = "returned"
    /\ Len(fetched) = 3
    /\ UniformChain(fetched, 2)
    /\ Len(yielded) = 6
    /\ n_calls = 3

\* What read_since_file makes of the since-file did not get smaller since
\* the run began.
NotRegressed(before, after) ==
    read_since_file(before) /= None =>
        /\ read_since_file(after) /= None
        /\ StrLeq(read_since_file(before)[1], read_since_file(after)[1])

\* C5.  The watermark in the since-file never regresses: at every point of
\* a run it is at least what it was when the run began.
C5_WatermarkNeverRegresses == NotRegressed(since_before, since_file)

\* A body of the page shape: a JSON object with a records array.
PageShape(b) == b.json = "object" /\ b.has_results /\ b.results_sized

\* C6.  A response with a 2xx status whose body is not a JSON object with a
\* records array makes the call fail at that attempt with a fatal error:
\* it is not retried and no page is returned.
C6_MalformedBodyIsFatal ==
    ( /\ call_log /= << >>
      /\ resp.kind = "response"
      /\ 200 <= resp.status /\ resp.status < 300
      /\ ~ PageShape(resp.body) ) =>
        /\ gen = "raised"
        /\ Last(call_log).class = "fatal"
        /\ Last(call_log).sleep = None

\* C7.  What the loop makes of every attempt's outcome is the class the
\* specification's classifier gives that outcome.
C7_ClassifierAgrees ==
    \A k \in 1..Len(call_log) : call_log[k].class = call_log[k].outcome

\* The index names the user's output file.
Indexed(db, username, path) ==
    /\ db /= None
    /\ \E k \in 1..Len(db[1]) :
           /\ db[1][k].username = username
           /\ \E n \in 1..Len(db[1][k].saved_files) :
                  db[1][k].saved_files[n] = path

\* C8.  Once a fetch error has reached main: with nothing collected the run
\* has failed with that error and no file was written; with something
\* collected the run goes on without raising, the output file gets exactly
\* the collected records and the index gets the output file.
C8_CallerPolicyOnError ==
    (error /= "" /\ pc /= "loop") =>
        IF collected = << >>
        THEN /\ pc = "failed"
             /\ output_file = None
             /\ users_file = None
             /\ since_file = since_before
        ELSE /\ pc \in { "save", "index", "since", "done" }
             /\ pc /= "save" => output_file = Some(collected)
             /\ pc \in { "since", "done" } =>
                    Indexed(users_file, args.user, OutputPath(args.user))

\* A run that met a fetch error after collecting records has completed and
\* has written them.
C8_Witness ==
    /\ error /= ""
    /\ collected /= << >>
    /\ pc = "done"
    /\ output_file = Some(collected)
    /\ Indexed(users_file, args.user, OutputPath(args.user))

\* C9.  When the call for a page after the first has failed, the failure is
\* on its way to main or has reached it, every record of the pages fetched
\* before was yielded, in order, and handed to main, and the failed call
\* is the last one made.
C9_ErrorKeepsYieldedRecords ==
    (error /= "" /\ n_calls >= 2) =>
        /\ gen \in { "raised", "failed" }
        /\ Len(fetched) = n_calls - 1
        /\ yielded = PageRecords(fetched)
        /\ Len(collected) = Len(yielded)
        /\ \A k \in 1..Len(yielded) :
               collected[k] = filter_fields(yielded[k], args.fields)

\* The call for the third page has exhausted its retries after two pages of
\* two records were yielded.
C9_Witness ==
    /\ gen = "failed"
    /\ error = "RetryError"
    /\ n_calls = 3
    /\ Len(yielded) = 4
    /\ yielded = PageRecords(fetched)

\* C10.  No page reference is fetched twice within one stream.
C10_NoPageFetchedTwice ==
    \A a, b \in 1..Len(fetched) :
        a /= b => fetched[a].url /= fetched[b].url

\* The cursor values of the records of a sequence that carry the field:
\* date_filed cut to its first 10 characters.
CursorValues(recs) ==
    { Prefix(recs[k].date_filed, 10) :
        k \in { n \in 1..Len(recs) : "date_filed" \in DOMAIN recs[n]
                                      /\ recs[n].date_filed /= << >> } }

\* The lexicographic maximum of the cursor values of the records, None when
\* no record carries the field.
MaxCursor(recs) ==
    IF CursorValues(recs) = { } THEN None
    ELSE Some(CHOOSE d \in CursorValues(recs) :
                  \A e \in CursorValues(recs) : StrLeq(e, d))

\* An Optional[str] did not get smaller, and did not get unset.
NoDecrease(before, after) ==
    before /= None => (after /= None /\ StrLeq(before[1], after[1]))

\* C11.  At every point of a run the tracked watermark newest_date is the
\* lexicographic maximum of date_filed[:10] over the records consumed so far
\* that carry the field, and is unset while none does; a record lacking the
\* field leaves it unchanged; no step of the run decreases it.
C11_WatermarkIsMaxCursor ==
    /\ [](newest_date = MaxCursor(yielded))
    /\ [][ /\ NoDecrease(newest_date, newest_date')
           /\ ( /\ Len(yielded') = Len(yielded) + 1
                /\ "date_filed" \notin DOMAIN Last(yielded') )
              => newest_date' = newest_date ]_vars

\* The newest date was kept through a record with an older date and a
\* record without the field.
C11_Witness ==
    /\ Len(yielded) >= 4
    /\ newest_date = Some(Prefix(D_2024_06_30T, 10))
    /\ "date_filed" \notin DOMAIN yielded[3]
    /\ yielded[4].date_filed = D_2020_05_05

\* C12.  A run whose session produced no record, because the stream was
\* empty or failed before its first record, never writes the since-file:
\* throughout and after the run the file holds what it held before.
C12_NoRecordsNoWatermarkWrite ==
    (yielded = << >> /\ collected = << >>) => since_file = since_before

\* A run with a since-file has completed on an empty stream.
C12_Witness ==
    /\ pc = "done"
    /\ args.since_file
    /\ n_calls >= 1
    /\ yielded = << >>
    /\ output_file = Some(<< >>)
    /\ since_file = since_before

\* main has consumed the record at which it stops: the limit-th one, or the
\* first one when the limit is below 1.
Stopped == i >= 1 /\ i >= args.limit

\* C13.  Once main has stopped consuming the stream at a record, the
\* generator is closed and no further page is fetched: every executor call
\* begun has returned its page, no attempt is under way, and no later step
\* begins a call, makes a GET or adds a page, whether or not the record was
\* the last of its page and the page carried a next reference.
C13_NoFetchAfterEarlyStop ==
    /\ [](Stopped => /\ gen = "closed"
                      /\ pc /= "loop"
                      /\ attempt = 0
                      /\ n_calls = Len(fetched))
    /\ [][Stopped => /\ gen' = gen
                     /\ n_calls' = n_calls
                     /\ attempt' = attempt
                     /\ fetched' = fetched
                     /\ yielded' = yielded]_vars

\* main stopped at the last record of a page that carried a next reference,
\* and the run has completed without a call for that reference.
C13_Witness ==
    /\ Stopped
    /\ pc = "done"
    /\ Last(fetched).body.next /= None
    /\ Len(yielded) = Len(PageRecords(fetched))
    /\ n_calls = Len(fetched)

\* The minimum date the filters are to carry: the --date_min argument when
\* given, else the text of the since-file (without the white space around
\* it) when one is configured, present and not blank, else none.
ExpectedDateMin ==
    IF args.date_min /= None THEN args.date_min
    ELSE IF /\ args.since_file
            /\ since_before /= None
            /\ Strip(since_before[1]) /= << >>
         THEN Some(Strip(since_before[1]))
    ELSE None

ExpectedFilters ==
    IF ExpectedDateMin = None THEN << >>
    ELSE << << "date_filed_min", ExpectedDateMin[1] >> >>

\* C14.  The filters main builds, and every attempt of the first page
\* request sends, carry date_filed_min = the --date_min argument when given,
\* else the content of the since-file when one is configured and present,
\* else no date_filed_min at all.
C14_EffectiveMinimumCursor ==
    /\ pc /= "start" => filters = ExpectedFilters
    /\ n_calls = 1 =>
           \A k \in 1..Len(call_log) :
               /\ call_log[k].url = OpinionsUrl
               /\ call_log[k].params = Some(ExpectedFilters)

\* With a since-file holding 2024-01-01 and no --date_min, the first page
\* was requested with date_filed_min = 2024-01-01.
C14_Witness ==
    /\ args.date_min = None
    /\ args.since_file
    /\ since_before = Some(D_2024_01_01 \o Newline)
    /\ n_calls = 1
    /\ call_log /= << >>
    /\ call_log[1].params = Some(<< << "date_filed_min", D_2024_01_01 >> >>)

\* C15.  The sleep after retryable attempt n of a call is BACKOFF_FACTOR *
\* 2^(n-1): the sleeps of one call follow its attempts 1, 2, ... without a
\* gap, each is the delay of its attempt, and each is longer than the one
\* before.
C15_BackoffDoubles ==
    \A n \in 1..Len(call_log) :
        call_log[n].sleep /= None =>
            /\ call_log[n].class = "retryable"
            /\ call_log[n].sleep = Some(BACKOFF_FACTOR * 2^(n - 1))
            /\ \A m \in 1..(n - 1) :
                   /\ call_log[m].sleep /= None
                   /\ call_log[m].sleep[1] < call_log[n].sleep[1]

\* A call has slept 1.5, 3, 6, 12 and 24 seconds after its attempts 1 to 5.
C15_Witness ==
    /\ Len(call_log) >= 5
    /\ call_log[1].sleep = Some(15)
    /\ call_log[2].sleep = Some(30)
    /\ call_log[3].sleep = Some(60)
    /\ call_log[4].sleep = Some(120)
    /\ call_log[5].sleep = Some(240)

\* The lines of an output file (none when the file does not exist).
Lines(file) == IF file = None THEN << >> ELSE file[1]

\* C16.  The record writer is append-only: once a run has written its
\* records, the output file holds the lines it held before the run, which
\* the earlier runs for the same user wrote, followed by the run's lines.
C16_WriterAppends ==
    pc \in { "index", "since", "done" } =>
        output_file = Some(Lines(output_before) \o collected)

\* C17.  The filters go with the attempts of the first page only: every
\* attempt of the first call asks the endpoint with the filters as params,
\* every attempt of a later call asks the next reference the server gave on
\* the page before with no params, and the retries of a call repeat the
\* URL and the params of its first attempt.
C17_FiltersOnlyOnFirstPage ==
    \A k \in 1..Len(call_log) :
        /\ call_log[k].url = call_log[1].url
        /\ call_log[k].params = call_log[1].params
        /\ IF n_calls = 1
           THEN /\ call_log[k].url = OpinionsUrl
                /\ call_log[k].params = Some(filters)
           ELSE /\ call_log[k].params = None
                /\ Some(call_log[k].url) =
                       fetched[n_calls - 1].body.next

\* A filtered stream has made its third call: the page was asked for three
\* times, after two sleeps, at its next reference and without params.
C17_Witness ==
    /\ filters /= << >>
    /\ n_calls = 3
    /\ Len(call_log) = 3
    /\ call_log[1].sleep /= None
    /\ call_log[3].url = PageUrl(3)
    /\ call_log[3].params = None

\* C18.  The retry state is fresh for every page.  Whatever the calls
\* before it used, a call begins with the attempt counter at 0 and nothing
\* slept, its attempts are numbered 1, 2, ... up to MAX_RETRIES, its first
\* sleep is the delay of attempt 1, and the attempt that returns the page is
\* not followed by a sleep, so nothing is slept between a page and the first
\* attempt for the next one.
C18_FreshRetryStatePerPage ==
    /\ [](/\ call_log /= << >> =>
                /\ attempt = Len(call_log)
                /\ Len(call_log) <= MAX_RETRIES
                /\ call_log[1].sleep \in { None, Some(BACKOFF_FACTOR) }
          /\ (gen = "call" /\ call_log = << >>) => attempt = 0
          /\ (gen = "page" /\ call_log /= << >>) =>
                 Last(call_log).sleep = None)
    /\ [][n_calls' = n_calls + 1 =>
              /\ gen' = "call"
              /\ attempt' = 0
              /\ call_log' = << >>]_vars

\* The call for the second page has used the whole budget: MAX_RETRIES
\* attempts, the first sleep being the delay of attempt 1.
C18_Witness ==
    /\ n_calls = 2
    /\ gen = "page"
    /\ yielded /= << >>
    /\ attempt = MAX_RETRIES
    /\ Len(call_log) = MAX_RETRIES
    /\ call_log[1].sleep = Some(BACKOFF_FACTOR)
    /\ Sleeps(call_log) = MAX_RETRIES - 1

\* C19.  A run never collects, and never writes to the output file, more
\* records than its --limit, for every limit from 0 up.
C19_AtMostLimitRecords ==
    /\ Len(collected) <= args.limit
    /\ Len(Lines(output_file)) <= args.limit

\* The records of the run are in the output file and the index names it.
Persisted ==
    /\ output_file = Some(collected)
    /\ Indexed(users_file, args.user, OutputPath(args.user))

\* C20.  The since-file is written only after the collected records were
\* written to the output file and the index was updated: a step changes
\* it only at the end of main with both writes done, and when the write of
\* the records or of the index has failed it holds what it held before the
\* run.
C20_WatermarkAfterPersistence ==
    /\ [](since_file /= since_before => (pc = "done" /\ Persisted))
    /\ [](pc = "failed" => since_file = since_before)
    /\ [][since_file' /= since_file => (pc = "since" /\ Persisted)]_vars

\* The write of the index has failed in a run that had a newer date to
\* store: the since-file is as it was before the run.
C20_Witness ==
    /\ pc = "failed"
    /\ error = "OSError"
    /\ output_file = Some(collected)
    /\ ~ Indexed(users_file, args.user, OutputPath(args.user))
    /\ ShouldWriteSince(args, newest_date)
    /\ since_before /= None
    /\ StrLess(Strip(since_before[1]), newest_date[1])
    /\ since_file = since_before

====
